---------------------------- MODULE Spec2Model ----------------------------
(***************************************************************************)
(* PharmaTrack: the in-memory entity store (server/storage.ts, MemStorage) *)
(* and the request handlers that mutate medicines, transactions and orders *)
(* (server/routes.ts).  One action per HTTP handler; every handler runs to *)
(* completion before the next request is taken.                            *)
(*                                                                         *)
(* A stored record keeps the fields the handlers read or write: a medicine *)
(* is [id, stockQuantity, stockStatus], a transaction is [id, status], an  *)
(* order is [id, supplierId, status], an item is [id, parent id,           *)
(* medicineId, quantity].  A record sits under its identifier in the map,  *)
(* as in MemStorage's Map<number, X>.  Requests carry integer quantities;  *)
(* requestCount counts                                                     *)
(* the requests answered and saleRun remembers the sales recorded back to  *)
(* back against one medicine.  inflight holds the handlers that are        *)
(* suspended at an await when requests are served concurrently.  today is  *)
(* the server's calendar day, now the client's clock in minutes, cache the *)
(* client's ApiCache, answer what the last alerting query returned,        *)
(* dispatched the notifications the last request handed to the mailer.     *)
(* users and userCurrentId are MemStorage's user accounts.  observers and  *)
(* notifications are the fields of the client's NotificationCenter,        *)
(* notificationCount the number of Notification objects constructed so far *)
(* and updates the calls of Observer.update made by the last notify.       *)
(***************************************************************************)
EXTENDS Integers, FiniteSets, Sequences, TLC

(***************************************************************************)
(* Bounds of the model.                                                    *)
(***************************************************************************)
MaxNewMedicines == 1
MaxTransactions == 1
MaxTransactionItems == 3
MaxOrders == 2
MaxOrderItems == 2
MaxRequests == 5
MaxQuantity == 25
MaxInflight == 2
MaxNow == 6
MaxPrescriptions == 2
MaxNotifies == 102
MaxUsers == 2

(***************************************************************************)
(* Request inputs.                                                         *)
(***************************************************************************)
\* the stock quantities of the medicines the constructor seeds (ids 1..4)
SeedQuantities == <<12, 8, 15, 10>>
SeedCount == Len(SeedQuantities)

\* ids a request may name: the ids handed to the records created after
\* construction (an id not handed out yet, or deleted, names no record)
RequestMedicineIds == (SeedCount + 1)..(SeedCount + MaxNewMedicines)
RequestTransactionIds == 1..MaxTransactions
RequestOrderIds == 1..MaxOrders

CreateQuantities == {4, 25}
PatchQuantities == {0, 21}
SaleQuantities == {4, 10, 11}
OrderItemQuantities == {50}
\* the suppliers the constructor seeds
SupplierIds == {1, 2}
OrderBodies == {[supplierId |-> s] : s \in SupplierIds}

StockStatuses == {"in_stock", "low_stock", "critical", "out_of_stock"}
OrderStatuses == {"pending", "processing", "shipped", "delivered", "cancelled"}
TransactionStatuses == {"completed", "pending", "cancelled"}
\* a status string outside both enumerations
UnknownStatus == "returned"
OrderStatusInputs == OrderStatuses \cup {UnknownStatus}
TransactionStatusInputs == TransactionStatuses \cup {UnknownStatus}

VARIABLES
    medicines, medicineCurrentId,
    transactions, transactionCurrentId,
    transactionItems, transactionItemCurrentId,
    orders, orderCurrentId,
    orderItems, orderItemCurrentId,
    response, requestCount,
    saleRun,
    inflight,
    today, now, cache, answer,
    prescriptions, prescriptionCurrentId,
    dispatched,
    users, userCurrentId,
    observers, notifications, notificationCount, updates

vars == <<medicines, medicineCurrentId, transactions, transactionCurrentId,
          transactionItems, transactionItemCurrentId, orders, orderCurrentId,
          orderItems, orderItemCurrentId, response, requestCount, saleRun,
          inflight, today, now, cache, answer, prescriptions,
          prescriptionCurrentId, dispatched, users, userCurrentId,
          observers, notifications, notificationCount, updates>>

\* the user accounts, and the client's notification center
accountVars == <<users, userCurrentId>>
centerVars == <<observers, notifications, notificationCount, updates>>

(***************************************************************************)
(* Helpers for Map<number, X> and for object spread.                       *)
(***************************************************************************)
\* map.set(id, rec)
MapSet(map, id, rec) ==
    [k \in DOMAIN map \cup {id} |-> IF k = id THEN rec ELSE map[k]]

\* map.delete(id)
MapDelete(map, id) ==
    [k \in DOMAIN map \ {id} |-> map[k]]

\* { ...base, ...patch }
Spread(base, patch) ==
    [k \in DOMAIN base \cup DOMAIN patch |->
        IF k \in DOMAIN patch THEN patch[k] ELSE base[k]]

\* the empty object {}
EmptyObject == [k \in {} |-> 0]

\* zod object parsing keeps the keys of the schema and strips the others
StripTo(body, keys) ==
    [k \in DOMAIN body \cap keys |-> body[k]]

(***************************************************************************)
(* shared/schema: insertMedicineSchema omits id and stockStatus.           *)
(***************************************************************************)
insertMedicineSchema(body) ==
    StripTo(body, {"stockQuantity"})

\* the HTTP status code of the last answer (0: no request answered yet)
Reply(code) == [code |-> code]

\* one more call has been made, by a browser to the server or by the client's
\* code to its repository; the model stops after MaxRequests calls
Called ==
    /\ requestCount < MaxRequests
    /\ requestCount' = requestCount + 1

\* one more request has been handled from its first line to its answer, with
\* no other handler running in between, by a handler of medicines,
\* transactions or orders
Served ==
    /\ Called
    /\ dispatched' = {}
    /\ UNCHANGED <<inflight, today, now, cache, answer, prescriptions,
                   prescriptionCurrentId, accountVars, centerVars>>

\* a handler suspended at one of its awaits: what it is serving, where it
\* stands, and what it has read so far
Slots == 1..MaxInflight
Idle == [kind |-> "idle", pc |-> "done", medicineId |-> 0, quantity |-> 0,
         orderId |-> 0, items |-> {}, credited |-> {}, read |-> 0]

\* what the last alerting query gave its caller: the medicines, by id
NoAnswer == [data |-> EmptyObject]

NoRun == [active |-> FALSE, medicineId |-> 0, start |-> EmptyObject, total |-> 0]

(***************************************************************************)
(* MemStorage.createMedicine: the status chain of lines 290-298.           *)
(***************************************************************************)
createMedicineStatus(q) ==
    IF q = 0 THEN "out_of_stock"
    ELSE IF q <= 5 THEN "critical"
    ELSE IF q <= 20 THEN "low_stock"
    ELSE "in_stock"

\* { ...insertMedicine, id, stockStatus }
createMedicine(meds, id, insertMedicine) ==
    MapSet(meds, id,
           Spread(insertMedicine,
                  [id |-> id,
                   stockStatus |-> createMedicineStatus(insertMedicine.stockQuantity)]))

(***************************************************************************)
(* MemStorage.updateMedicine: merge, then recalculate (lines 305-326).     *)
(***************************************************************************)
\* variant: the thresholds taken strictly (< 5, < 20)
updateMedicineStatusStrict(q) ==
    IF q = 0 THEN "out_of_stock"
    ELSE IF q < 5 THEN "critical"
    ELSE IF q < 20 THEN "low_stock"
    ELSE "in_stock"

updateMedicineStatus(q) ==
    IF q = 0 THEN "out_of_stock"
    ELSE IF q <= 5 THEN "critical"
    ELSE IF q <= 20 THEN "low_stock"
    ELSE "in_stock"

\* variant: merges the patch and keeps the stored status
updateMedicineNoRecalc(meds, id, patch) ==
    IF id \notin DOMAIN meds THEN meds
    ELSE MapSet(meds, id, Spread(meds[id], patch))

updateMedicine(meds, id, patch) ==
    IF id \notin DOMAIN meds THEN meds
    ELSE LET merged == Spread(meds[id], patch)
             updatedMedicine ==
                 IF "stockQuantity" \in DOMAIN merged
                 THEN Spread(merged,
                             [stockStatus |-> updateMedicineStatus(merged.stockQuantity)])
                 ELSE merged
         IN  MapSet(meds, id, updatedMedicine)

\* variant: the filter reads the quantity instead of the stored status
getLowStockMedicinesByQuantity(meds) ==
    [id \in {i \in DOMAIN meds : meds[i].stockQuantity <= 20} |-> meds[id]]

\* MemStorage.getLowStockMedicines, also what GET /api/medicines/low-stock
\* answers: the stored medicines the filter keeps, by id
getLowStockMedicines(meds) ==
    [id \in {i \in DOMAIN meds : \/ meds[i].stockStatus = "low_stock"
                                 \/ meds[i].stockStatus = "critical"} |-> meds[id]]

(***************************************************************************)
(* Init: the store after new MemStorage(): the seeded medicines, every     *)
(* other map of the model empty, every counter at its next free id.        *)
(***************************************************************************)
RECURSIVE seedMedicines(_, _)
seedMedicines(meds, n) ==
    IF n > SeedCount THEN meds
    ELSE seedMedicines(createMedicine(meds, n, [stockQuantity |-> SeedQuantities[n]]), n + 1)

Init ==
    /\ medicines = seedMedicines(EmptyObject, 1)
    /\ medicineCurrentId = SeedCount + 1
    /\ transactions = EmptyObject
    /\ transactionCurrentId = 1
    /\ transactionItems = EmptyObject
    /\ transactionItemCurrentId = 1
    /\ orders = EmptyObject
    /\ orderCurrentId = 1
    /\ orderItems = EmptyObject
    /\ orderItemCurrentId = 1
    /\ response = Reply(0)
    /\ requestCount = 0
    /\ saleRun = NoRun
    /\ inflight = [s \in Slots |-> Idle]
    /\ today = 0
    /\ now = 0
    /\ cache = EmptyObject
    /\ answer = NoAnswer
    /\ prescriptions = EmptyObject
    /\ prescriptionCurrentId = 1
    /\ dispatched = {}
    /\ users = EmptyObject
    /\ userCurrentId = 1
    /\ observers = <<>>
    /\ notifications = <<>>
    /\ notificationCount = 0
    /\ updates = <<>>

(***************************************************************************)
(* Request bodies for the medicine endpoints: a stock quantity, and        *)
(* optionally a stockStatus the caller tries to set.                       *)
(***************************************************************************)
MedicineBodies(quantities) ==
    {[stockQuantity |-> q] : q \in quantities}
    \cup {[stockQuantity |-> q, stockStatus |-> s] : q \in quantities, s \in StockStatuses}

MedicinePatchBodies ==
    MedicineBodies(PatchQuantities)
    \cup {EmptyObject}
    \cup {[stockStatus |-> s] : s \in StockStatuses}

(***************************************************************************)
(* POST /api/medicines                                                     *)
(***************************************************************************)
\* variant: the id is the number of stored medicines plus one
PostMedicineAtStoreSize(body) ==
    /\ Served
    /\ medicineCurrentId <= SeedCount + MaxNewMedicines
    /\ medicines' = createMedicine(medicines, Cardinality(DOMAIN medicines) + 1,
                                   insertMedicineSchema(body))
    /\ medicineCurrentId' = medicineCurrentId + 1
    /\ response' = Reply(201)
    /\ saleRun' = NoRun
    /\ UNCHANGED <<transactions, transactionCurrentId, transactionItems,
                   transactionItemCurrentId, orders, orderCurrentId,
                   orderItems, orderItemCurrentId>>

PostMedicine(body) ==
    /\ Served
    /\ medicineCurrentId <= SeedCount + MaxNewMedicines
    /\ medicines' = createMedicine(medicines, medicineCurrentId, insertMedicineSchema(body))
    /\ medicineCurrentId' = medicineCurrentId + 1
    /\ response' = Reply(201)
    /\ saleRun' = NoRun
    /\ UNCHANGED <<transactions, transactionCurrentId, transactionItems,
                   transactionItemCurrentId, orders, orderCurrentId,
                   orderItems, orderItemCurrentId>>

(***************************************************************************)
(* PATCH /api/medicines/:id                                                *)
(***************************************************************************)
PatchMedicine(id, body) ==
    /\ Served
    /\ medicines' = updateMedicine(medicines, id, insertMedicineSchema(body))
    /\ response' = Reply(IF id \in DOMAIN medicines THEN 200 ELSE 404)
    /\ saleRun' = NoRun
    /\ UNCHANGED <<medicineCurrentId, transactions, transactionCurrentId,
                   transactionItems, transactionItemCurrentId, orders,
                   orderCurrentId, orderItems, orderItemCurrentId>>

(***************************************************************************)
(* DELETE /api/medicines/:id                                               *)
(***************************************************************************)
DeleteMedicine(id) ==
    /\ Served
    /\ medicines' = MapDelete(medicines, id)
    /\ response' = Reply(IF id \in DOMAIN medicines THEN 204 ELSE 404)
    /\ saleRun' = NoRun
    /\ UNCHANGED <<medicineCurrentId, transactions, transactionCurrentId,
                   transactionItems, transactionItemCurrentId, orders,
                   orderCurrentId, orderItems, orderItemCurrentId>>

(***************************************************************************)
(* POST /api/transactions: MemStorage.createTransaction stores the new     *)
(* transaction with status 'pending'.                                      *)
(***************************************************************************)
TransactionBodies(amounts) == {[totalAmount |-> a] : a \in amounts}

\* MemStorage.createTransaction: { ...insertTransaction, id, date, status }
createTransaction(txs, id, insertTransaction) ==
    MapSet(txs, id, Spread(insertTransaction, [id |-> id, status |-> "pending"]))

PostTransaction(body) ==
    /\ Served
    /\ transactionCurrentId <= MaxTransactions
    /\ transactions' = createTransaction(transactions, transactionCurrentId,
                                         StripTo(body, {"totalAmount"}))
    /\ transactionCurrentId' = transactionCurrentId + 1
    /\ response' = Reply(201)
    /\ saleRun' = NoRun
    /\ UNCHANGED <<medicines, medicineCurrentId, transactionItems,
                   transactionItemCurrentId, orders, orderCurrentId,
                   orderItems, orderItemCurrentId>>

(***************************************************************************)
(* The stock update both item endpoints run after storing the item:        *)
(* getMedicine, then updateMedicine with stockQuantity - quantity.         *)
(***************************************************************************)
\* variant: the stock is adjusted only when it covers the quantity sold
SaleEffectIfSufficient(meds, medicineId, quantity) ==
    IF medicineId \in DOMAIN meds /\ meds[medicineId].stockQuantity >= quantity
    THEN updateMedicine(meds, medicineId,
                        [stockQuantity |-> meds[medicineId].stockQuantity - quantity])
    ELSE meds

SaleEffect(meds, medicineId, quantity) ==
    IF medicineId \in DOMAIN meds
    THEN updateMedicine(meds, medicineId,
                        [stockQuantity |-> meds[medicineId].stockQuantity - quantity])
    ELSE meds

\* the run of sales recorded one right after the other against one medicine
SaleRunAfter(medicineId, quantity) ==
    IF medicineId \notin DOMAIN medicines THEN NoRun
    ELSE IF saleRun.active /\ saleRun.medicineId = medicineId
    THEN [saleRun EXCEPT !.total = @ + quantity]
    ELSE [active |-> TRUE, medicineId |-> medicineId,
          start |-> medicines[medicineId], total |-> quantity]

\* shared/schema: insertTransactionItemSchema omits id
insertTransactionItemSchema(body) ==
    StripTo(body, {"transactionId", "medicineId", "quantity", "price"})

\* MemStorage.createTransactionItem (lines 508-513)
createTransactionItem(items, id, insertTransactionItem) ==
    MapSet(items, id, Spread(insertTransactionItem, [id |-> id]))

\* variant: the stock is lowered by one per item, whatever its quantity
StoreItemAndAdjustStockByOne(itemData) ==
    /\ transactionItems' =
           createTransactionItem(transactionItems, transactionItemCurrentId, itemData)
    /\ transactionItemCurrentId' = transactionItemCurrentId + 1
    /\ medicines' = SaleEffect(medicines, itemData.medicineId, 1)
    /\ saleRun' = SaleRunAfter(itemData.medicineId, itemData.quantity)

\* MemStorage.createTransactionItem followed by the stock update
StoreItemAndAdjustStock(itemData) ==
    /\ transactionItems' =
           createTransactionItem(transactionItems, transactionItemCurrentId, itemData)
    /\ transactionItemCurrentId' = transactionItemCurrentId + 1
    /\ medicines' = SaleEffect(medicines, itemData.medicineId, itemData.quantity)
    /\ saleRun' = SaleRunAfter(itemData.medicineId, itemData.quantity)

(***************************************************************************)
(* POST /api/transactions/:id/items                                        *)
(***************************************************************************)
\* variant: the stock update is applied to every stored medicine
PostTransactionItemsUpdatingAll(transactionId, body) ==
    /\ Served
    /\ transactionItemCurrentId <= MaxTransactionItems
    /\ IF transactionId \notin DOMAIN transactions
       THEN /\ response' = Reply(404)
            /\ saleRun' = NoRun
            /\ UNCHANGED <<medicines, transactionItems, transactionItemCurrentId>>
       ELSE /\ transactionItems' =
                   createTransactionItem(transactionItems, transactionItemCurrentId,
                          insertTransactionItemSchema(
                              Spread(body, [transactionId |-> transactionId])))
            /\ transactionItemCurrentId' = transactionItemCurrentId + 1
            /\ medicines' =
                   [id \in DOMAIN medicines |->
                       updateMedicine(medicines, id,
                           [stockQuantity |->
                               medicines[id].stockQuantity - body.quantity])[id]]
            /\ saleRun' = SaleRunAfter(body.medicineId, body.quantity)
            /\ response' = Reply(201)
    /\ UNCHANGED <<medicineCurrentId, transactions, transactionCurrentId,
                   orders, orderCurrentId, orderItems, orderItemCurrentId>>

PostTransactionItems(transactionId, body) ==
    /\ Served
    /\ transactionItemCurrentId <= MaxTransactionItems
    /\ IF transactionId \notin DOMAIN transactions
       THEN /\ response' = Reply(404)
            /\ saleRun' = NoRun
            /\ UNCHANGED <<medicines, transactionItems, transactionItemCurrentId>>
       ELSE /\ StoreItemAndAdjustStock(
                   insertTransactionItemSchema(
                       Spread(body, [transactionId |-> transactionId])))
            /\ response' = Reply(201)
    /\ UNCHANGED <<medicineCurrentId, transactions, transactionCurrentId,
                   orders, orderCurrentId, orderItems, orderItemCurrentId>>

(***************************************************************************)
(* POST /api/transaction-items: the transaction id comes from the body and *)
(* is not looked up.                                                       *)
(***************************************************************************)
\* variant: an item naming a medicine that is not stored is answered 404 and
\* not recorded
PostTransactionItemCheckingMedicine(body) ==
    /\ Served
    /\ transactionItemCurrentId <= MaxTransactionItems
    /\ IF body.medicineId \notin DOMAIN medicines
       THEN /\ response' = Reply(404)
            /\ saleRun' = NoRun
            /\ UNCHANGED <<medicines, transactionItems, transactionItemCurrentId>>
       ELSE /\ StoreItemAndAdjustStock(insertTransactionItemSchema(body))
            /\ response' = Reply(201)
    /\ UNCHANGED <<medicineCurrentId, transactions, transactionCurrentId,
                   orders, orderCurrentId, orderItems, orderItemCurrentId>>

PostTransactionItem(body) ==
    /\ Served
    /\ transactionItemCurrentId <= MaxTransactionItems
    /\ StoreItemAndAdjustStock(insertTransactionItemSchema(body))
    /\ response' = Reply(201)
    /\ UNCHANGED <<medicineCurrentId, transactions, transactionCurrentId,
                   orders, orderCurrentId, orderItems, orderItemCurrentId>>

(***************************************************************************)
(* PATCH /api/transactions/:id/status                                      *)
(***************************************************************************)
\* variant: the spread runs without the lookup's early return
updateTransactionStatusUpsert(txs, id, status) ==
    MapSet(txs, id, Spread(IF id \in DOMAIN txs THEN txs[id] ELSE EmptyObject,
                           [status |-> status]))

updateTransactionStatus(txs, id, status) ==
    IF id \notin DOMAIN txs THEN txs
    ELSE MapSet(txs, id, Spread(txs[id], [status |-> status]))

\* variant: cancelling a transaction returns the quantities of its items to
\* the stock
PatchTransactionStatusRestocking(id, status) ==
    /\ Served
    /\ IF status \notin {"completed", "pending", "cancelled"}
       THEN /\ response' = Reply(400)
            /\ UNCHANGED <<transactions, medicines>>
       ELSE /\ transactions' = updateTransactionStatus(transactions, id, status)
            /\ medicines' =
                   IF status = "cancelled" /\ id \in DOMAIN transactions
                   THEN LET RECURSIVE Returned(_, _)
                            Returned(items, m) ==
                                IF items = {} THEN 0
                                ELSE LET i == CHOOSE x \in items : TRUE
                                     IN  (IF transactionItems[i].transactionId = id
                                             /\ transactionItems[i].medicineId = m
                                          THEN transactionItems[i].quantity ELSE 0)
                                         + Returned(items \ {i}, m)
                        IN  [m \in DOMAIN medicines |->
                                updateMedicine(medicines, m,
                                    [stockQuantity |->
                                        medicines[m].stockQuantity
                                        + Returned(DOMAIN transactionItems, m)])[m]]
                   ELSE medicines
            /\ response' = Reply(IF id \in DOMAIN transactions THEN 200 ELSE 404)
    /\ saleRun' = NoRun
    /\ UNCHANGED <<medicineCurrentId, transactionCurrentId,
                   transactionItems, transactionItemCurrentId, orders,
                   orderCurrentId, orderItems, orderItemCurrentId>>

PatchTransactionStatus(id, status) ==
    /\ Served
    /\ IF status \notin {"completed", "pending", "cancelled"}
       THEN /\ response' = Reply(400)
            /\ UNCHANGED transactions
       ELSE /\ transactions' = updateTransactionStatus(transactions, id, status)
            /\ response' = Reply(IF id \in DOMAIN transactions THEN 200 ELSE 404)
    /\ saleRun' = NoRun
    /\ UNCHANGED <<medicines, medicineCurrentId, transactionCurrentId,
                   transactionItems, transactionItemCurrentId, orders,
                   orderCurrentId, orderItems, orderItemCurrentId>>

(***************************************************************************)
(* POST /api/orders: MemStorage.createOrder stores status 'pending'.       *)
(***************************************************************************)
createOrder(ords, id, insertOrder) ==
    MapSet(ords, id, Spread(insertOrder, [id |-> id, status |-> "pending"]))

PostOrder(body) ==
    /\ Served
    /\ orderCurrentId <= MaxOrders
    /\ orders' = createOrder(orders, orderCurrentId, body)
    /\ orderCurrentId' = orderCurrentId + 1
    /\ response' = Reply(201)
    /\ saleRun' = NoRun
    /\ UNCHANGED <<medicines, medicineCurrentId, transactions, transactionCurrentId,
                   transactionItems, transactionItemCurrentId,
                   orderItems, orderItemCurrentId>>

(***************************************************************************)
(* POST /api/orders/:id/items                                              *)
(***************************************************************************)
\* MemStorage.createOrderItem (lines 587-592)
createOrderItem(items, id, insertOrderItem) ==
    MapSet(items, id, Spread(insertOrderItem, [id |-> id]))

\* variant: an item added to a delivered order is credited to the stock at once
PostOrderItemsCreditingDelivered(orderId, medicineId, quantity) ==
    /\ Served
    /\ orderItemCurrentId <= MaxOrderItems
    /\ IF orderId \notin DOMAIN orders
       THEN /\ response' = Reply(404)
            /\ UNCHANGED <<orderItems, orderItemCurrentId, medicines>>
       ELSE /\ orderItems' =
                   createOrderItem(orderItems, orderItemCurrentId,
                                   [orderId |-> orderId, medicineId |-> medicineId,
                                    quantity |-> quantity])
            /\ orderItemCurrentId' = orderItemCurrentId + 1
            /\ medicines' =
                   IF orders[orderId].status = "delivered" /\ medicineId \in DOMAIN medicines
                   THEN updateMedicine(medicines, medicineId,
                            [stockQuantity |->
                                medicines[medicineId].stockQuantity + quantity])
                   ELSE medicines
            /\ response' = Reply(201)
    /\ saleRun' = NoRun
    /\ UNCHANGED <<medicineCurrentId, transactions, transactionCurrentId,
                   transactionItems, transactionItemCurrentId, orders, orderCurrentId>>

PostOrderItems(orderId, medicineId, quantity) ==
    /\ Served
    /\ orderItemCurrentId <= MaxOrderItems
    /\ IF orderId \notin DOMAIN orders
       THEN /\ response' = Reply(404)
            /\ UNCHANGED <<orderItems, orderItemCurrentId>>
       ELSE /\ orderItems' =
                   createOrderItem(orderItems, orderItemCurrentId,
                                   [orderId |-> orderId, medicineId |-> medicineId,
                                    quantity |-> quantity])
            /\ orderItemCurrentId' = orderItemCurrentId + 1
            /\ response' = Reply(201)
    /\ saleRun' = NoRun
    /\ UNCHANGED <<medicines, medicineCurrentId, transactions, transactionCurrentId,
                   transactionItems, transactionItemCurrentId, orders, orderCurrentId>>

(***************************************************************************)
(* MemStorage.updateOrderStatus and MemStorage.getOrderItems.              *)
(***************************************************************************)
updateOrderStatus(ords, id, status) ==
    IF id \notin DOMAIN ords THEN ords
    ELSE MapSet(ords, id, Spread(ords[id], [status |-> status]))

getOrderItems(orderId) ==
    {i \in DOMAIN orderItems : orderItems[i].orderId = orderId}

Min(S) == CHOOSE x \in S : \A y \in S : x <= y

\* the delivery loop: for each item, in insertion order, getMedicine and
\* updateMedicine with stockQuantity + item.quantity
RECURSIVE CreditItems(_, _)
CreditItems(meds, itemIds) ==
    IF itemIds = {} THEN meds
    ELSE LET i == Min(itemIds)
             item == orderItems[i]
             credited ==
                 IF item.medicineId \in DOMAIN meds
                 THEN updateMedicine(meds, item.medicineId,
                          [stockQuantity |-> meds[item.medicineId].stockQuantity + item.quantity])
                 ELSE meds
         IN  CreditItems(credited, itemIds \ {i})

(***************************************************************************)
(* PATCH /api/orders/:id/status                                            *)
(***************************************************************************)
\* variant: shipped orders are credited to stock as well
deliveryTriggeredOnShipped(status) ==
    status \in {"shipped", "delivered"}

\* if (status === 'delivered')
deliveryTriggered(status) ==
    status = "delivered"

PatchOrderStatus(id, status) ==
    /\ Served
    /\ IF status \notin {"pending", "processing", "shipped", "delivered", "cancelled"}
       THEN /\ response' = Reply(400)
            /\ UNCHANGED <<orders, medicines>>
       ELSE IF id \notin DOMAIN orders
       THEN /\ response' = Reply(404)
            /\ UNCHANGED <<orders, medicines>>
       ELSE /\ orders' = updateOrderStatus(orders, id, status)
            /\ medicines' = IF deliveryTriggered(status)
                            THEN CreditItems(medicines, getOrderItems(id))
                            ELSE medicines
            /\ response' = Reply(200)
    /\ saleRun' = NoRun
    /\ UNCHANGED <<medicineCurrentId, transactions, transactionCurrentId,
                   transactionItems, transactionItemCurrentId,
                   orderCurrentId, orderItems, orderItemCurrentId>>

(***************************************************************************)
(* POST /api/orders/:id/status (the notification hook): any string is      *)
(* accepted as status; notifyOrderStatusUpdate runs after the update and a *)
(* throw from it is answered with 400.                                     *)
(***************************************************************************)
\* notifyOrderStatusUpdate returns without a mail when the order's supplier
\* has no email; otherwise it mails the supplier "Order #id Status Update:
\* status" and then throws at storage.getUsers, which the store does not have
notifyOrderStatusUpdate(ords, orderId, supplierHasEmail) ==
    IF orderId \in DOMAIN ords /\ supplierHasEmail
    THEN {[event |-> "order status", id |-> orderId, status |-> ords[orderId].status]}
    ELSE {}

PostOrderStatus(authenticated, id, status, notifyThrows) ==
    /\ Called
    /\ IF ~authenticated
       THEN /\ response' = Reply(401)
            /\ dispatched' = {}
            /\ UNCHANGED orders
       ELSE IF id \notin DOMAIN orders
       THEN /\ response' = Reply(404)
            /\ dispatched' = {}
            /\ UNCHANGED orders
       ELSE /\ orders' = updateOrderStatus(orders, id, status)
            /\ dispatched' = notifyOrderStatusUpdate(orders', id, notifyThrows)
            /\ response' = Reply(IF notifyThrows THEN 400 ELSE 200)
    /\ UNCHANGED <<inflight, today, now, cache, answer, prescriptions,
                   prescriptionCurrentId, accountVars, centerVars>>
    /\ saleRun' = NoRun
    /\ UNCHANGED <<medicines, medicineCurrentId, transactions, transactionCurrentId,
                   transactionItems, transactionItemCurrentId,
                   orderCurrentId, orderItems, orderItemCurrentId>>

Next ==
    \/ \E body \in TransactionBodies({0}) : PostTransaction(body)
    \/ \E t \in RequestTransactionIds, m \in RequestMedicineIds, q \in SaleQuantities :
          PostTransactionItems(t, [medicineId |-> m, quantity |-> q])
    \/ \E t \in RequestTransactionIds, m \in RequestMedicineIds, q \in SaleQuantities :
          PostTransactionItem([transactionId |-> t, medicineId |-> m, quantity |-> q])
    \/ \E t \in RequestTransactionIds, s \in TransactionStatusInputs : PatchTransactionStatus(t, s)
    \/ \E body \in OrderBodies : PostOrder(body)
    \/ \E o \in RequestOrderIds, m \in RequestMedicineIds, q \in OrderItemQuantities :
          PostOrderItems(o, m, q)
    \/ \E o \in RequestOrderIds, s \in OrderStatusInputs : PatchOrderStatus(o, s)
    \/ \E a \in BOOLEAN, o \in RequestOrderIds, s \in OrderStatusInputs, n \in BOOLEAN :
          PostOrderStatus(a, o, s, n)
    \/ \E body \in MedicineBodies(CreateQuantities) : PostMedicine(body)
    \/ \E id \in RequestMedicineIds, body \in MedicinePatchBodies : PatchMedicine(id, body)
    \/ \E id \in RequestMedicineIds : DeleteMedicine(id)

Spec == Init /\ [][Next]_vars

(***************************************************************************)
(* Concurrent requests.  Every storage call of a handler is awaited, so a  *)
(* handler can be suspended between two storage calls while another runs.  *)
(* The steps below are the storage calls of the item handler (routes.ts    *)
(* 358-366, the same calls as 336-344) and of the delivery branch of       *)
(* PATCH /api/orders/:id/status (528-546), one step per await.             *)
(***************************************************************************)
\* the seeded medicine the concurrent requests name
ConcurrentMedicineIds == {1}

\* await storage.createTransactionItem(itemData)
SaleBegin(slot, medicineId, quantity) ==
    /\ inflight[slot].kind = "idle"
    /\ transactionItemCurrentId <= MaxTransactionItems
    /\ transactionItems' =
           createTransactionItem(transactionItems, transactionItemCurrentId,
                                 [transactionId |-> 1, medicineId |-> medicineId,
                                  quantity |-> quantity])
    /\ transactionItemCurrentId' = transactionItemCurrentId + 1
    /\ inflight' = [inflight EXCEPT ![slot] =
                       [Idle EXCEPT !.kind = "sale", !.pc = "read",
                                    !.medicineId = medicineId, !.quantity = quantity]]
    /\ UNCHANGED <<prescriptions, prescriptionCurrentId, dispatched, accountVars, centerVars>>
    /\ UNCHANGED <<medicines, medicineCurrentId, transactions, transactionCurrentId,
                   orders, orderCurrentId, orderItems, orderItemCurrentId,
                   response, requestCount, saleRun,
                   today, now, cache, answer>>

\* const medicine = await storage.getMedicine(itemData.medicineId)
SaleRead(slot) ==
    /\ inflight[slot].kind = "sale"
    /\ inflight[slot].pc = "read"
    /\ IF inflight[slot].medicineId \in DOMAIN medicines
       THEN /\ inflight' = [inflight EXCEPT
                   ![slot].pc = "write",
                   ![slot].read = medicines[inflight[slot].medicineId].stockQuantity]
            /\ UNCHANGED response
       ELSE /\ inflight' = [inflight EXCEPT ![slot].pc = "done"]
            /\ response' = Reply(201)
    /\ UNCHANGED <<prescriptions, prescriptionCurrentId, dispatched, accountVars, centerVars>>
    /\ UNCHANGED <<medicines, medicineCurrentId, transactions, transactionCurrentId,
                   transactionItems, transactionItemCurrentId, orders, orderCurrentId,
                   orderItems, orderItemCurrentId, requestCount, saleRun,
                   today, now, cache, answer>>

\* await storage.updateMedicine(medicine.id, {...}); res.status(201)
SaleWrite(slot) ==
    /\ inflight[slot].kind = "sale"
    /\ inflight[slot].pc = "write"
    /\ medicines' = updateMedicine(medicines, inflight[slot].medicineId,
                                   [stockQuantity |-> inflight[slot].read - inflight[slot].quantity])
    /\ inflight' = [inflight EXCEPT ![slot].pc = "done"]
    /\ response' = Reply(201)
    /\ UNCHANGED <<prescriptions, prescriptionCurrentId, dispatched, accountVars, centerVars>>
    /\ UNCHANGED <<medicineCurrentId, transactions, transactionCurrentId,
                   transactionItems, transactionItemCurrentId, orders, orderCurrentId,
                   orderItems, orderItemCurrentId, requestCount, saleRun,
                   today, now, cache, answer>>

\* const order = await storage.updateOrderStatus(id, 'delivered')
DeliveryBegin(slot, orderId) ==
    /\ inflight[slot].kind = "idle"
    /\ orderId \in DOMAIN orders
    /\ orders' = updateOrderStatus(orders, orderId, "delivered")
    /\ inflight' = [inflight EXCEPT ![slot] =
                       [Idle EXCEPT !.kind = "delivery", !.pc = "items",
                                    !.orderId = orderId]]
    /\ UNCHANGED <<prescriptions, prescriptionCurrentId, dispatched, accountVars, centerVars>>
    /\ UNCHANGED <<medicines, medicineCurrentId, transactions, transactionCurrentId,
                   transactionItems, transactionItemCurrentId, orderCurrentId,
                   orderItems, orderItemCurrentId, response, requestCount, saleRun,
                   today, now, cache, answer>>

\* const items = await storage.getOrderItems(id)
DeliveryItems(slot) ==
    /\ inflight[slot].kind = "delivery"
    /\ inflight[slot].pc = "items"
    /\ LET items == {i \in DOMAIN orderItems : orderItems[i].orderId = inflight[slot].orderId}
       IN  /\ inflight' = [inflight EXCEPT
                  ![slot].items = items,
                  ![slot].pc = IF items = {} THEN "done" ELSE "read"]
           /\ response' = IF items = {} THEN Reply(200) ELSE response
    /\ UNCHANGED <<prescriptions, prescriptionCurrentId, dispatched, accountVars, centerVars>>
    /\ UNCHANGED <<medicines, medicineCurrentId, transactions, transactionCurrentId,
                   transactionItems, transactionItemCurrentId, orders, orderCurrentId,
                   orderItems, orderItemCurrentId, requestCount, saleRun,
                   today, now, cache, answer>>

\* the item the loop is at: the first of those left, in insertion order
CurrentItem(slot) ==
    CHOOSE i \in inflight[slot].items : \A j \in inflight[slot].items : i <= j

\* what the loop does after an item: the next item, or res.json(order)
AfterItem(slot, credit) ==
    LET rest == inflight[slot].items \ {CurrentItem(slot)}
    IN  [inflight EXCEPT
            ![slot].items = rest,
            ![slot].credited = @ \cup (IF credit THEN {CurrentItem(slot)} ELSE {}),
            ![slot].pc = IF rest = {} THEN "done" ELSE "read"]

\* const medicine = await storage.getMedicine(item.medicineId)
DeliveryRead(slot) ==
    /\ inflight[slot].kind = "delivery"
    /\ inflight[slot].pc = "read"
    /\ LET item == orderItems[CurrentItem(slot)]
       IN  IF item.medicineId \in DOMAIN medicines
           THEN /\ inflight' = [inflight EXCEPT
                       ![slot].pc = "write",
                       ![slot].read = medicines[item.medicineId].stockQuantity]
                /\ UNCHANGED response
           ELSE /\ inflight' = AfterItem(slot, FALSE)
                /\ response' = IF inflight'[slot].pc = "done" THEN Reply(200) ELSE response
    /\ UNCHANGED <<prescriptions, prescriptionCurrentId, dispatched, accountVars, centerVars>>
    /\ UNCHANGED <<medicines, medicineCurrentId, transactions, transactionCurrentId,
                   transactionItems, transactionItemCurrentId, orders, orderCurrentId,
                   orderItems, orderItemCurrentId, requestCount, saleRun,
                   today, now, cache, answer>>

\* await storage.updateMedicine(medicine.id,
\*     { stockQuantity: medicine.stockQuantity + item.quantity })
DeliveryWrite(slot) ==
    /\ inflight[slot].kind = "delivery"
    /\ inflight[slot].pc = "write"
    /\ LET item == orderItems[CurrentItem(slot)]
       IN  medicines' = updateMedicine(medicines, item.medicineId,
                            [stockQuantity |-> inflight[slot].read + item.quantity])
    /\ inflight' = AfterItem(slot, TRUE)
    /\ response' = IF inflight'[slot].pc = "done" THEN Reply(200) ELSE response
    /\ UNCHANGED <<prescriptions, prescriptionCurrentId, dispatched, accountVars, centerVars>>
    /\ UNCHANGED <<medicineCurrentId, transactions, transactionCurrentId,
                   transactionItems, transactionItemCurrentId, orders, orderCurrentId,
                   orderItems, orderItemCurrentId, requestCount, saleRun,
                   today, now, cache, answer>>

NextConcurrent ==
    \/ \E body \in OrderBodies : PostOrder(body)
    \/ \E o \in RequestOrderIds, m \in ConcurrentMedicineIds, q \in OrderItemQuantities :
          PostOrderItems(o, m, q)
    \/ \E s \in Slots, m \in ConcurrentMedicineIds, q \in SaleQuantities : SaleBegin(s, m, q)
    \/ \E s \in Slots : SaleRead(s)
    \/ \E s \in Slots : SaleWrite(s)
    \/ \E s \in Slots, o \in RequestOrderIds : DeliveryBegin(s, o)
    \/ \E s \in Slots : DeliveryItems(s)
    \/ \E s \in Slots : DeliveryRead(s)
    \/ \E s \in Slots : DeliveryWrite(s)

SpecConcurrent == Init /\ [][NextConcurrent]_vars

(***************************************************************************)
(* Alerting queries: GET /api/medicines/low-stock and                      *)
(* GET /api/medicines/expiring on the server, and the client's             *)
(* MedicineRepository in front of them with its ApiCache.  Calendar days   *)
(* are counted from 2024-10-01 (day 0); the seeded medicines carry the     *)
(* expiry dates of seedData, a medicine created without one has no         *)
(* expiryDate key.                                                         *)
(***************************************************************************)
\* 2024-12-31, 2024-10-15, 2025-02-28, 2024-11-30
SeedExpiryDays == <<91, 14, 150, 60>>

\* the days on which the server is started
Todays == {29, 31}

RECURSIVE seedMedicinesWithExpiry(_, _)
seedMedicinesWithExpiry(meds, n) ==
    IF n > SeedCount THEN meds
    ELSE seedMedicinesWithExpiry(
             createMedicine(meds, n, [stockQuantity |-> SeedQuantities[n],
                                      expiryDate |-> SeedExpiryDays[n]]),
             n + 1)

InitAlerts ==
    /\ medicines = seedMedicinesWithExpiry(EmptyObject, 1)
    /\ medicineCurrentId = SeedCount + 1
    /\ transactions = EmptyObject
    /\ transactionCurrentId = 1
    /\ transactionItems = EmptyObject
    /\ transactionItemCurrentId = 1
    /\ orders = EmptyObject
    /\ orderCurrentId = 1
    /\ orderItems = EmptyObject
    /\ orderItemCurrentId = 1
    /\ response = Reply(0)
    /\ requestCount = 0
    /\ saleRun = NoRun
    /\ inflight = [s \in Slots |-> Idle]
    /\ today \in Todays
    /\ now = 0
    /\ cache = EmptyObject
    /\ answer = NoAnswer
    /\ prescriptions = EmptyObject
    /\ prescriptionCurrentId = 1
    /\ dispatched = {}
    /\ users = EmptyObject
    /\ userCurrentId = 1
    /\ observers = <<>>
    /\ notifications = <<>>
    /\ notificationCount = 0
    /\ updates = <<>>

\* MemStorage.getMedicinesByExpiryDate on calendar day `day`
getMedicinesByExpiryDate(meds, day, daysThreshold) ==
    [id \in {i \in DOMAIN meds : /\ "expiryDate" \in DOMAIN meds[i]
                                 /\ meds[i].expiryDate <= day + daysThreshold}
        |-> meds[id]]

TickMinutes == 3

\* parseInt on a string given as its sequence of characters: the value of the
\* leading decimal digits, NaN when there is none
Digits == <<"0", "1", "2", "3", "4", "5", "6", "7", "8", "9">>
IsDigit(c) == \E d \in 1..10 : Digits[d] = c
DigitValue(c) == (CHOOSE d \in 1..10 : Digits[d] = c) - 1
NaN == [nan |-> TRUE, value |-> 0]

RECURSIVE ParseDigits(_, _, _)
ParseDigits(str, i, acc) ==
    IF i > Len(str) \/ ~IsDigit(str[i]) THEN acc
    ELSE ParseDigits(str, i + 1, 10 * acc + DigitValue(str[i]))

parseInt(str) ==
    IF Len(str) = 0 \/ ~IsDigit(str[1]) THEN NaN
    ELSE [nan |-> FALSE, value |-> ParseDigits(str, 1, 0)]

\* number || fallback: NaN and 0 are falsy
OrElse(number, fallback) ==
    IF number.nan \/ number.value = 0 THEN fallback ELSE number.value

\* req.query of GET /api/medicines/expiring: days missing, or a string
DaysStrings == {<<"0">>, <<"7">>, <<"3", "0">>, <<"a", "b", "c">>}
ExpiringQueries == {EmptyObject} \cup {[days |-> str] : str \in DaysStrings}

\* const daysThreshold = parseInt(req.query.days as string) || 30
daysThresholdOf(query) ==
    OrElse(IF "days" \in DOMAIN query THEN parseInt(query.days) ELSE NaN, 30)

(***************************************************************************)
(* GET /api/medicines/low-stock                                            *)
(***************************************************************************)
GetLowStock ==
    /\ Called
    /\ answer' = [data |-> getLowStockMedicines(medicines)]
    /\ response' = Reply(200)
    /\ UNCHANGED <<prescriptions, prescriptionCurrentId, dispatched, accountVars, centerVars>>
    /\ UNCHANGED <<medicines, medicineCurrentId, transactions, transactionCurrentId,
                   transactionItems, transactionItemCurrentId, orders, orderCurrentId,
                   orderItems, orderItemCurrentId, saleRun, inflight, today, now, cache>>

(***************************************************************************)
(* GET /api/medicines/expiring?days=N                                      *)
(***************************************************************************)
GetExpiring(query) ==
    /\ Called
    /\ answer' = [data |-> getMedicinesByExpiryDate(medicines, today,
                                                    daysThresholdOf(query))]
    /\ response' = Reply(200)
    /\ UNCHANGED <<prescriptions, prescriptionCurrentId, dispatched, accountVars, centerVars>>
    /\ UNCHANGED <<medicines, medicineCurrentId, transactions, transactionCurrentId,
                   transactionItems, transactionItemCurrentId, orders, orderCurrentId,
                   orderItems, orderItemCurrentId, saleRun, inflight, today, now, cache>>

(***************************************************************************)
(* The client's ApiCache (a Map from key to {data, expiry}) and            *)
(* BaseRepository, whose cacheTtl is 5 minutes.                            *)
(***************************************************************************)
CacheTtl == 5
BaseUrl == "/api/medicines"

\* ApiCache.get finds an item that has not expired
CacheHit(key) ==
    key \in DOMAIN cache /\ ~(cache[key].expiry < now)

\* ApiCache.get deletes the item it finds expired
CacheAfterGet(key) ==
    IF key \in DOMAIN cache /\ cache[key].expiry < now THEN MapDelete(cache, key)
    ELSE cache

\* ApiCache.set
CacheSet(c, key, data, ttl) ==
    MapSet(c, key, [data |-> data, expiry |-> now + ttl])

\* BaseRepository.findWithFilters: the cached array if there is one, else
\* GET baseUrl?filters, which the server answers with storage.getMedicines()
findWithFilters(queryString) ==
    LET key == BaseUrl \o "?" \o queryString
    IN  IF CacheHit(key)
        THEN /\ answer' = [data |-> cache[key].data]
             /\ UNCHANGED <<cache, response>>
        ELSE /\ answer' = [data |-> medicines]
             /\ cache' = CacheSet(CacheAfterGet(key), key, medicines, CacheTtl)
             /\ response' = Reply(200)

\* MedicineRepository.getLowStock
RepositoryGetLowStock ==
    /\ Called
    /\ findWithFilters("lowStock=true")
    /\ UNCHANGED <<prescriptions, prescriptionCurrentId, dispatched, accountVars, centerVars>>
    /\ UNCHANGED <<medicines, medicineCurrentId, transactions, transactionCurrentId,
                   transactionItems, transactionItemCurrentId, orders, orderCurrentId,
                   orderItems, orderItemCurrentId, saleRun, inflight, today, now>>

\* MedicineRepository.getExpiringSoon
RepositoryGetExpiringSoon(days) ==
    /\ Called
    /\ findWithFilters("expiring=" \o ToString(days))
    /\ UNCHANGED <<prescriptions, prescriptionCurrentId, dispatched, accountVars, centerVars>>
    /\ UNCHANGED <<medicines, medicineCurrentId, transactions, transactionCurrentId,
                   transactionItems, transactionItemCurrentId, orders, orderCurrentId,
                   orderItems, orderItemCurrentId, saleRun, inflight, today, now>>

\* MedicineRepository.updateStock: BaseRepository.update sends
\* PATCH baseUrl/id and, unless answered 404, removes the keys baseUrl/id and
\* baseUrl from the cache
RepositoryUpdateStock(id, quantity) ==
    /\ Called
    /\ medicines' = updateMedicine(medicines, id,
                                   insertMedicineSchema([stockQuantity |-> quantity]))
    /\ response' = Reply(IF id \in DOMAIN medicines THEN 200 ELSE 404)
    /\ cache' = IF id \in DOMAIN medicines
                THEN MapDelete(MapDelete(cache, BaseUrl \o "/" \o ToString(id)), BaseUrl)
                ELSE cache
    /\ saleRun' = NoRun
    /\ UNCHANGED <<prescriptions, prescriptionCurrentId, dispatched, accountVars, centerVars>>
    /\ UNCHANGED <<medicineCurrentId, transactions, transactionCurrentId,
                   transactionItems, transactionItemCurrentId, orders, orderCurrentId,
                   orderItems, orderItemCurrentId, inflight, today, now, answer>>

\* time passes on the client's clock
Tick ==
    /\ now < MaxNow
    /\ now' = now + TickMinutes
    /\ UNCHANGED <<prescriptions, prescriptionCurrentId, dispatched, accountVars, centerVars>>
    /\ UNCHANGED <<medicines, medicineCurrentId, transactions, transactionCurrentId,
                   transactionItems, transactionItemCurrentId, orders, orderCurrentId,
                   orderItems, orderItemCurrentId, response, requestCount, saleRun,
                   inflight, today, cache, answer>>

\* the seeded medicine the alerting requests sell from and edit
AlertMedicineIds == {4}
AlertSaleQuantities == {4}

NextAlerts ==
    \/ \E body \in MedicineBodies(CreateQuantities) : PostMedicine(body)
    \/ \E t \in RequestTransactionIds, m \in AlertMedicineIds, q \in AlertSaleQuantities :
          PostTransactionItem([transactionId |-> t, medicineId |-> m, quantity |-> q])
    \/ GetLowStock
    \/ \E query \in ExpiringQueries : GetExpiring(query)
    \/ RepositoryGetLowStock
    \/ \E days \in {30} : RepositoryGetExpiringSoon(days)
    \/ \E id \in AlertMedicineIds, q \in PatchQuantities : RepositoryUpdateStock(id, q)
    \/ Tick

SpecAlerts == InitAlerts /\ [][NextAlerts]_vars

(***************************************************************************)
(* Prescriptions, and transactions with their amounts: the requests carry  *)
(* a prescription number, a total amount, a line price.                    *)
(***************************************************************************)
PrescriptionNumbers == {"RX-2023-001", "RX-2023-002"}
PatientIds == {1, 2}
PrescriptionBodies ==
    {[prescriptionNumber |-> n, patientId |-> p] : n \in PrescriptionNumbers, p \in PatientIds}

\* shared/schema: insertPrescriptionSchema omits id
insertPrescriptionSchema(body) ==
    StripTo(body, {"prescriptionNumber", "patientId"})

\* MemStorage.createPrescription: { ...insertPrescription, id }
createPrescription(pres, id, insertPrescription) ==
    MapSet(pres, id, Spread(insertPrescription, [id |-> id]))

(***************************************************************************)
(* POST /api/prescriptions                                                 *)
(***************************************************************************)
PostPrescription(body) ==
    /\ Called
    /\ prescriptionCurrentId <= MaxPrescriptions
    /\ prescriptions' = createPrescription(prescriptions, prescriptionCurrentId,
                                           insertPrescriptionSchema(body))
    /\ prescriptionCurrentId' = prescriptionCurrentId + 1
    /\ response' = Reply(201)
    /\ dispatched' = {}
    /\ saleRun' = NoRun
    /\ UNCHANGED <<medicines, medicineCurrentId, transactions, transactionCurrentId,
                   transactionItems, transactionItemCurrentId, orders, orderCurrentId,
                   orderItems, orderItemCurrentId, inflight, today, now, cache, answer,
                   accountVars, centerVars>>

(***************************************************************************)
(* POST /api/prescriptions (the notification hook): the body is stored as  *)
(* sent, then notifyNewPrescription runs and a throw from it is answered   *)
(* with 400.                                                               *)
(***************************************************************************)
\* notifyNewPrescription returns without a mail when the patient has no
\* email; otherwise it mails the patient and then throws at storage.getUsers
notifyNewPrescription(prescriptionId, patientHasEmail) ==
    IF patientHasEmail
    THEN {[event |-> "new prescription", id |-> prescriptionId]}
    ELSE {}

PostPrescriptionNotified(authenticated, body, notifyThrows) ==
    /\ Called
    /\ prescriptionCurrentId <= MaxPrescriptions
    /\ IF ~authenticated
       THEN /\ response' = Reply(401)
            /\ dispatched' = {}
            /\ UNCHANGED <<prescriptions, prescriptionCurrentId>>
       ELSE /\ prescriptions' = createPrescription(prescriptions, prescriptionCurrentId, body)
            /\ prescriptionCurrentId' = prescriptionCurrentId + 1
            /\ dispatched' = notifyNewPrescription(prescriptionCurrentId, notifyThrows)
            /\ response' = Reply(IF notifyThrows THEN 400 ELSE 201)
    /\ saleRun' = NoRun
    /\ UNCHANGED <<medicines, medicineCurrentId, transactions, transactionCurrentId,
                   transactionItems, transactionItemCurrentId, orders, orderCurrentId,
                   orderItems, orderItemCurrentId, inflight, today, now, cache, answer,
                   accountVars, centerVars>>

\* the amounts of the transaction form: a total of 0 (no item) or of 300 (its
\* items' prices added up), line prices of 100 and 200
TotalAmounts == {0, 300}
LinePrices == {100, 200}
LedgerMedicineIds == {1}
LedgerQuantities == {1}

NextLedger ==
    \/ \E body \in PrescriptionBodies : PostPrescription(body)
    \/ \E a \in BOOLEAN, body \in PrescriptionBodies, n \in BOOLEAN :
          PostPrescriptionNotified(a, body, n)
    \/ \E body \in TransactionBodies(TotalAmounts) : PostTransaction(body)
    \/ \E t \in RequestTransactionIds, m \in LedgerMedicineIds, q \in LedgerQuantities,
          p \in LinePrices :
          PostTransactionItem([transactionId |-> t, medicineId |-> m, quantity |-> q,
                               price |-> p])
    \/ \E t \in RequestTransactionIds, m \in LedgerMedicineIds, q \in LedgerQuantities,
          p \in LinePrices :
          PostTransactionItems(t, [medicineId |-> m, quantity |-> q, price |-> p])

SpecLedger == Init /\ [][NextLedger]_vars

(***************************************************************************)
(* Creations and deletions.  The requests of this specification create     *)
(* records of every modelled type and delete medicines, the seeded ones    *)
(* included, so that a creation can follow the deletion of any stored id.  *)
(***************************************************************************)
StoredMedicineIds == 1..(SeedCount + MaxNewMedicines)

NextIds ==
    \/ \E body \in MedicineBodies(CreateQuantities) : PostMedicine(body)
    \/ \E id \in StoredMedicineIds : DeleteMedicine(id)
    \/ \E body \in TransactionBodies({0}) : PostTransaction(body)
    \/ \E t \in RequestTransactionIds, m \in StoredMedicineIds :
          PostTransactionItem([transactionId |-> t, medicineId |-> m, quantity |-> 4])
    \/ \E body \in OrderBodies : PostOrder(body)
    \/ \E o \in RequestOrderIds, m \in StoredMedicineIds : PostOrderItems(o, m, 50)

SpecIds == Init /\ [][NextIds]_vars

(***************************************************************************)
(* Two-factor authentication (server/notifications.ts, the two-factor      *)
(* functions, and the /api/2fa routes of server/routes.ts).  An outcome is *)
(* the user map a function leaves, whether it threw, and what it returned. *)
(* MemStorage defines getUser, getUserByUsername and createUser for users  *)
(* and nothing else: a call of storage.updateUserTwoFactorSecret,          *)
(* updateUserTwoFactorEnabled or updateUserTwoFactorVerified is a call of  *)
(* undefined and throws a TypeError with the map as it was.                *)
(***************************************************************************)
Usernames == {"alice", "bob"}
Roles == {"admin", "pharmacist"}
UserBodies == {[username |-> u, role |-> r] : u \in Usernames, r \in Roles}
UserIds == 1..MaxUsers
\* the token of a verification request: too short for the schema, six
\* characters that do not match the secret, six characters that do
Tokens == {"12345", "000000", "123456"}
TokenVerifies(token) == token = "123456"

\* a field of a stored user, undefined when the object has no such field;
\* the values of the two-factor fields are written "true", "false", "null"
\* and, for a secret, "secret"
Undefined == "undefined"
Field(object, key) == IF key \in DOMAIN object THEN object[key] ELSE Undefined
Truthy(value) == value \notin {Undefined, "false", "null"}

Returned(us, value) == [users |-> us, threw |-> FALSE, value |-> value]
Thrown(us) == [users |-> us, threw |-> TRUE, value |-> FALSE]

\* MemStorage.createUser
createUser(us, id, insertUser) ==
    MapSet(us, id, Spread(insertUser, [id |-> id]))

\* storage.updateUserTwoFactorSecret(userId, secret): not a function
updateUserTwoFactorSecret(us, userId, secret) == Thrown(us)
\* storage.updateUserTwoFactorEnabled(userId, enabled): not a function
updateUserTwoFactorEnabled(us, userId, enabled) == Thrown(us)
\* storage.updateUserTwoFactorVerified(userId, verified): not a function
updateUserTwoFactorVerified(us, userId, verified) == Thrown(us)

generateTwoFactorSecret(us, userId) ==
    IF userId \notin DOMAIN us THEN Thrown(us)
    ELSE LET saved == updateUserTwoFactorSecret(us, userId, "secret")
         IN  IF saved.threw THEN saved ELSE Returned(saved.users, "secret")

verifyTwoFactorToken(us, userId, token) ==
    IF userId \notin DOMAIN us \/ ~Truthy(Field(us[userId], "twoFactorSecret"))
    THEN Returned(us, FALSE)
    ELSE IF TokenVerifies(token) /\ ~Truthy(Field(us[userId], "twoFactorVerified"))
    THEN LET marked == updateUserTwoFactorVerified(us, userId, "true")
         IN  IF marked.threw THEN marked ELSE Returned(marked.users, TRUE)
    ELSE Returned(us, TokenVerifies(token))

enableTwoFactorAuth(us, userId) ==
    IF userId \notin DOMAIN us THEN Thrown(us)
    ELSE LET generated == generateTwoFactorSecret(us, userId)
         IN  IF generated.threw THEN generated
             ELSE LET enabled == updateUserTwoFactorEnabled(generated.users, userId, "true")
                  IN  IF enabled.threw THEN enabled
                      ELSE LET reset == updateUserTwoFactorVerified(enabled.users,
                                                                   userId, "false")
                           IN  IF reset.threw THEN reset
                               ELSE Returned(reset.users, generated.value)

disableTwoFactorAuth(us, userId) ==
    IF userId \notin DOMAIN us THEN Thrown(us)
    ELSE LET disabled == updateUserTwoFactorEnabled(us, userId, "false")
         IN  IF disabled.threw THEN disabled
             ELSE LET reset == updateUserTwoFactorVerified(disabled.users, userId, "false")
                  IN  IF reset.threw THEN reset
                      ELSE updateUserTwoFactorSecret(reset.users, userId, "null")

\* a request of the account routes leaves every other store as it was
AccountRequest ==
    /\ Called
    /\ dispatched' = {}
    /\ saleRun' = NoRun
    /\ UNCHANGED <<medicines, medicineCurrentId, transactions, transactionCurrentId,
                   transactionItems, transactionItemCurrentId, orders, orderCurrentId,
                   orderItems, orderItemCurrentId, inflight, today, now, cache, answer,
                   prescriptions, prescriptionCurrentId, centerVars>>

\* a registration: the account is stored by MemStorage.createUser
Register(body) ==
    /\ AccountRequest
    /\ userCurrentId <= MaxUsers
    /\ users' = createUser(users, userCurrentId, body)
    /\ userCurrentId' = userCurrentId + 1
    /\ response' = Reply(201)

\* POST /api/2fa/enable; an authenticated request carries a stored user
PostTwoFactorEnable(authenticated, userId) ==
    /\ AccountRequest
    /\ authenticated => userId \in DOMAIN users
    /\ IF ~authenticated
       THEN /\ response' = Reply(401)
            /\ UNCHANGED users
       ELSE LET outcome == enableTwoFactorAuth(users, userId)
            IN  /\ users' = outcome.users
                /\ response' = Reply(IF outcome.threw THEN 500 ELSE 200)
    /\ UNCHANGED userCurrentId

\* POST /api/2fa/verify
PostTwoFactorVerify(authenticated, userId, token) ==
    /\ AccountRequest
    /\ authenticated => userId \in DOMAIN users
    /\ IF ~authenticated
       THEN /\ response' = Reply(401)
            /\ UNCHANGED users
       ELSE IF token = "12345"
       THEN /\ response' = Reply(400)
            /\ UNCHANGED users
       ELSE LET outcome == verifyTwoFactorToken(users, userId, token)
            IN  /\ users' = outcome.users
                /\ response' = Reply(IF ~outcome.threw /\ outcome.value = TRUE
                                     THEN 200 ELSE 400)
    /\ UNCHANGED userCurrentId

\* POST /api/2fa/disable
PostTwoFactorDisable(authenticated, userId) ==
    /\ AccountRequest
    /\ authenticated => userId \in DOMAIN users
    /\ IF ~authenticated
       THEN /\ response' = Reply(401)
            /\ UNCHANGED users
       ELSE LET outcome == disableTwoFactorAuth(users, userId)
            IN  /\ users' = outcome.users
                /\ response' = Reply(IF outcome.threw THEN 500 ELSE 200)
    /\ UNCHANGED userCurrentId

NextTwoFactor ==
    \/ \E body \in UserBodies : Register(body)
    \/ \E a \in BOOLEAN, u \in UserIds : PostTwoFactorEnable(a, u)
    \/ \E a \in BOOLEAN, u \in UserIds, token \in Tokens : PostTwoFactorVerify(a, u, token)
    \/ \E a \in BOOLEAN, u \in UserIds : PostTwoFactorDisable(a, u)

SpecTwoFactor == Init /\ [][NextTwoFactor]_vars

(***************************************************************************)
(* The client's NotificationCenter (lib/patterns/observer.ts).  A          *)
(* Notification is the record of its id; the ids stand in construction     *)
(* order, every notify being handed a Notification constructed for it      *)
(* (MedicineList, part_005 75 and 93).                                     *)
(***************************************************************************)
maxNotifications == 100

\* the observer objects of the client
ObserverObjects == {"stockManager", "dashboard"}
\* the ids removeNotification is called with
RemoveIds == {2}

Range(seq) == {seq[i] : i \in DOMAIN seq}

\* Array.prototype.splice(index, 1)
SpliceOne(seq, index) ==
    [i \in 1..(Len(seq) - 1) |-> IF i < index THEN seq[i] ELSE seq[i + 1]]

\* NotificationCenter.attach: includes, then push
attach(obs, observer) ==
    IF observer \in Range(obs) THEN obs ELSE Append(obs, observer)

\* NotificationCenter.detach: indexOf, then splice
detach(obs, observer) ==
    IF observer \notin Range(obs) THEN obs
    ELSE SpliceOne(obs, CHOOSE i \in DOMAIN obs :
                            obs[i] = observer /\ \A j \in 1..(i - 1) : obs[j] # observer)

\* variant: the slice keeps the last maxNotifications entries
addNotificationKeepingLast(list, notification) ==
    LET unshifted == <<notification>> \o list
    IN  IF Len(unshifted) > maxNotifications
        THEN SubSeq(unshifted, Len(unshifted) - maxNotifications + 1, Len(unshifted))
        ELSE unshifted

\* NotificationCenter.addNotification: unshift, then slice(0, maxNotifications)
addNotification(list, notification) ==
    LET unshifted == <<notification>> \o list
    IN  IF Len(unshifted) > maxNotifications
        THEN SubSeq(unshifted, 1, maxNotifications)
        ELSE unshifted

\* NotificationCenter.removeNotification: findIndex, then splice
removeNotification(list, notificationId) ==
    IF \A i \in DOMAIN list : list[i].id # notificationId THEN list
    ELSE SpliceOne(list, CHOOSE i \in DOMAIN list :
                             /\ list[i].id = notificationId
                             /\ \A j \in 1..(i - 1) : list[j].id # notificationId)

\* the steps of the center leave the server and the rest of the client alone
ServerUnchanged ==
    UNCHANGED <<medicines, medicineCurrentId, transactions, transactionCurrentId,
                transactionItems, transactionItemCurrentId, orders, orderCurrentId,
                orderItems, orderItemCurrentId, response, requestCount, saleRun,
                inflight, today, now, cache, answer, prescriptions,
                prescriptionCurrentId, dispatched, accountVars>>

Attach(observer) ==
    /\ observers' = attach(observers, observer)
    /\ UNCHANGED <<notifications, notificationCount, updates>>
    /\ ServerUnchanged

Detach(observer) ==
    /\ observers' = detach(observers, observer)
    /\ UNCHANGED <<notifications, notificationCount, updates>>
    /\ ServerUnchanged

\* notify(new Notification(...)): store the notification, then call update
\* on every observer in turn
Notify ==
    /\ notificationCount < MaxNotifies
    /\ notificationCount' = notificationCount + 1
    /\ LET notification == [id |-> notificationCount + 1]
       IN  /\ notifications' = addNotification(notifications, notification)
           /\ updates' = [i \in DOMAIN observers |->
                             [observer |-> observers[i], notification |-> notification]]
    /\ UNCHANGED observers
    /\ ServerUnchanged

ClearNotifications ==
    /\ notifications' = <<>>
    /\ UNCHANGED <<observers, notificationCount, updates>>
    /\ ServerUnchanged

RemoveNotification(notificationId) ==
    /\ notifications' = removeNotification(notifications, notificationId)
    /\ UNCHANGED <<observers, notificationCount, updates>>
    /\ ServerUnchanged

NextCenter ==
    \/ \E observer \in ObserverObjects : Attach(observer)
    \/ \E observer \in ObserverObjects : Detach(observer)
    \/ Notify
    \/ ClearNotifications
    \/ \E id \in RemoveIds : RemoveNotification(id)

SpecCenter == Init /\ [][NextCenter]_vars

(***************************************************************************)
(* The client's classification of a stock quantity: BaseMedicine of the    *)
(* medicine factory, and the thresholds of AppConfig's default             *)
(* configuration.                                                          *)
(***************************************************************************)
\* BaseMedicine.getStockStatus
getStockStatus(stockQuantity) ==
    IF stockQuantity <= 0 THEN "Out of Stock"
    ELSE IF stockQuantity < 5 THEN "Critical"
    ELSE IF stockQuantity < 10 THEN "Low Stock"
    ELSE "In Stock"

\* BaseMedicine.isLowOnStock
isLowOnStock(stockQuantity) == stockQuantity < 10

\* AppConfig.defaultConfig.stockThresholds
stockThresholds == [critical |-> 5, low |-> 10]

(***************************************************************************)
(* The canonical threshold table of the stock state machine, defined on    *)
(* the non-negative quantities.                                            *)
(***************************************************************************)
StatusTable(q) ==
    CASE q = 0 -> "out_of_stock"
      [] q \in 1..5 -> "critical"
      [] q \in 6..20 -> "low_stock"
      [] q > 20 -> "in_stock"

\* the medicines created by requests (the seeded ones have ids 1..SeedCount)
CreatedMedicines == {id \in DOMAIN medicines : id > SeedCount}

\* the transaction item stored by the current step, if there is one
ItemStoredInStep == transactionItemCurrentId' = transactionItemCurrentId + 1

\* the total quantity of order orderId's items that name medicine medicineId
RECURSIVE SumQuantities(_)
SumQuantities(itemIds) ==
    IF itemIds = {} THEN 0
    ELSE LET i == CHOOSE x \in itemIds : TRUE
         IN  orderItems[i].quantity + SumQuantities(itemIds \ {i})

OrderedQuantity(orderId, medicineId) ==
    SumQuantities({i \in DOMAIN orderItems :
                      /\ orderItems[i].orderId = orderId
                      /\ orderItems[i].medicineId = medicineId})

C2_ThresholdTable ==
    \A q \in 0..MaxQuantity :
        /\ StatusTable(q) \in StockStatuses
        /\ createMedicine(medicines, medicineCurrentId, [stockQuantity |-> q])
               [medicineCurrentId].stockStatus = StatusTable(q)
        /\ \A id \in DOMAIN medicines :
              updateMedicine(medicines, id, [stockQuantity |-> q])[id]
                  = [id |-> id, stockQuantity |-> q, stockStatus |-> StatusTable(q)]

\* a medicine was created by a request and then edited to a quantity no
\* creation request carries
C2_Witness ==
    \E id \in CreatedMedicines :
        /\ medicines[id].stockQuantity = 21
        /\ medicines[id].stockStatus = "in_stock"
        /\ transactionItems = EmptyObject

(***************************************************************************)
(* C3: a medicine's stock quantity is never negative.                      *)
(***************************************************************************)
C3_StockNeverNegative ==
    \A id \in DOMAIN medicines : medicines[id].stockQuantity >= 0

(***************************************************************************)
(* C4: a step that stores a transaction item of quantity n for a stored    *)
(* medicine with stock c >= n leaves the medicine at c - n with the status *)
(* the table gives for c - n.                                              *)
(***************************************************************************)
C4_SaleDecrements ==
    [][ItemStoredInStep =>
          LET item == transactionItems'[transactionItemCurrentId]
              id == item.medicineId
          IN  (id \in DOMAIN medicines /\ medicines[id].stockQuantity >= item.quantity)
                  => /\ id \in DOMAIN medicines'
                     /\ medicines'[id] =
                            [id |-> id,
                             stockQuantity |-> medicines[id].stockQuantity - item.quantity,
                             stockStatus |->
                                 StatusTable(medicines[id].stockQuantity - item.quantity)]
       ]_vars

\* a medicine created with 25 and then sold 10, 11 and 4 from, by the only
\* four requests served, stands at 0 / out_of_stock
C4_Witness ==
    \E id \in CreatedMedicines :
        /\ requestCount = 4
        /\ DOMAIN transactionItems = 1..3
        /\ \A i \in 1..3 : transactionItems[i].medicineId = id
        /\ transactionItems[1].quantity = 10
        /\ transactionItems[2].quantity = 11
        /\ transactionItems[3].quantity = 4
        /\ medicines[id] =
               [id |-> id, stockQuantity |-> 0, stockStatus |-> "out_of_stock"]

(***************************************************************************)
(* C5: a step that moves an order's status to delivered from another       *)
(* status raises the stock of every stored medicine by the quantities of   *)
(* that order's items for it and leaves it with the status of the table.   *)
(***************************************************************************)
C5_DeliveryCreditsStock ==
    [][\A o \in DOMAIN orders :
          (orders[o].status # "delivered" /\ orders'[o].status = "delivered")
              => \A id \in DOMAIN medicines :
                    /\ id \in DOMAIN medicines'
                    /\ medicines'[id].stockQuantity =
                           medicines[id].stockQuantity + OrderedQuantity(o, id)
                    /\ medicines'[id].stockQuantity >= 0
                           => medicines'[id].stockStatus =
                                  StatusTable(medicines'[id].stockQuantity)
       ]_vars

(***************************************************************************)
(* C6: a delivered status update for an order that is already delivered    *)
(* changes no medicine.                                                    *)
(***************************************************************************)
C6_DeliveryIdempotent ==
    [][\A o \in DOMAIN orders :
          (orders[o].status = "delivered" /\ PatchOrderStatus(o, "delivered"))
              => medicines' = medicines
       ]_vars

(***************************************************************************)
(* C7: once an order is delivered or cancelled its status never changes.   *)
(***************************************************************************)
C7_TerminalStatuses ==
    [][\A o \in DOMAIN orders :
          orders[o].status \in {"delivered", "cancelled"}
              => orders'[o].status = orders[o].status
       ]_vars

(***************************************************************************)
(* C8: a new order starts in pending, and a step changes the status of a   *)
(* non-terminal order only by one forward step of pending -> processing -> *)
(* shipped -> delivered or to cancelled.                                   *)
(***************************************************************************)
ForwardSteps ==
    {<<"pending", "processing">>, <<"processing", "shipped">>, <<"shipped", "delivered">>}

C8_ForwardStepsOnly ==
    [][/\ \A o \in DOMAIN orders' \ DOMAIN orders : orders'[o].status = "pending"
       /\ \A o \in DOMAIN orders :
             (/\ orders[o].status \notin {"delivered", "cancelled"}
              /\ orders'[o].status # orders[o].status)
                 => \/ <<orders[o].status, orders'[o].status>> \in ForwardSteps
                    \/ orders'[o].status = "cancelled"
       ]_vars

(***************************************************************************)
(* C9: a step that changes an order's status to a value other than         *)
(* delivered changes nothing but that order's status field: the medicines, *)
(* the other orders, the order's other fields and the items stay as they   *)
(* were.                                                                   *)
(***************************************************************************)
C9_OtherStatusesTouchOnlyTheOrder ==
    [][\A o \in DOMAIN orders :
          (orders'[o].status # orders[o].status /\ orders'[o].status # "delivered")
              => /\ medicines' = medicines
                 /\ orders' = [orders EXCEPT ![o].status = orders'[o].status]
                 /\ orderItems' = orderItems
                 /\ transactions' = transactions
                 /\ transactionItems' = transactionItems
       ]_vars

\* of two orders, one with an item for a stored medicine has been moved to
\* shipped while the other is still pending and the medicine is as created
C9_Witness ==
    \E o1 \in DOMAIN orders, o2 \in DOMAIN orders, id \in CreatedMedicines :
        /\ o1 # o2
        /\ orders[o1].status = "shipped"
        /\ orders[o2].status = "pending"
        /\ \E i \in DOMAIN orderItems :
              orderItems[i].orderId = o1 /\ orderItems[i].medicineId = id
        /\ medicines[id].stockQuantity \in CreateQuantities

(***************************************************************************)
(* C10: after sales recorded one right after the other against one         *)
(* medicine, the medicine is what a single sale of the summed quantity     *)
(* makes of the record the first sale found.                               *)
(***************************************************************************)
C10_SequentialSalesAdd ==
    saleRun.active =>
        /\ saleRun.medicineId \in DOMAIN medicines
        /\ medicines[saleRun.medicineId] =
               SaleEffect(MapSet(EmptyObject, saleRun.medicineId, saleRun.start),
                          saleRun.medicineId, saleRun.total)[saleRun.medicineId]

\* a sale of 10 and a sale of 11, back to back, took a medicine from 25 to 4
C10_Witness ==
    /\ saleRun.active
    /\ saleRun.total = 21
    /\ saleRun.start.stockQuantity = 25
    /\ medicines[saleRun.medicineId].stockQuantity = 4
    /\ medicines[saleRun.medicineId].stockStatus = "critical"

(***************************************************************************)
(* C11: when every concurrent request has been answered, the medicine they *)
(* name stands at its initial quantity, less the quantity of every sale    *)
(* answered, plus the quantity of every order item the deliveries          *)
(* credited: no update is lost.                                            *)
(***************************************************************************)
RECURSIVE SumOver(_, _)
SumOver(S, f) ==
    IF S = {} THEN 0
    ELSE LET x == CHOOSE y \in S : TRUE
         IN  f[x] + SumOver(S \ {x}, f)

SoldConcurrently(medicineId) ==
    SumOver({s \in Slots : inflight[s].kind = "sale" /\ inflight[s].medicineId = medicineId},
            [s \in Slots |-> inflight[s].quantity])

CreditedConcurrently(medicineId) ==
    SumOver({s \in Slots : inflight[s].kind = "delivery"},
            [s \in Slots |->
                SumOver({i \in inflight[s].credited : orderItems[i].medicineId = medicineId},
                        [i \in DOMAIN orderItems |-> orderItems[i].quantity])])

ItemRequestForMissingMedicine(transactionId, medicineId, quantity) ==
    /\ medicineId \notin DOMAIN medicines
    /\ \/ PostTransactionItem([transactionId |-> transactionId,
                               medicineId |-> medicineId, quantity |-> quantity])
       \/ /\ transactionId \in DOMAIN transactions
          /\ PostTransactionItems(transactionId,
                                  [medicineId |-> medicineId, quantity |-> quantity])

C12_MissingMedicineStillRecorded ==
    [][\A t \in RequestTransactionIds, m \in RequestMedicineIds, q \in SaleQuantities :
          ItemRequestForMissingMedicine(t, m, q)
              => /\ response'.code = 201
                 /\ transactionItems' =
                        MapSet(transactionItems, transactionItemCurrentId,
                               [id |-> transactionItemCurrentId, transactionId |-> t,
                                medicineId |-> m, quantity |-> q])
                 /\ medicines' = medicines
      ]_vars

\* a medicine was created and deleted, and the third request recorded an item
\* for its id
C12_Witness ==
    /\ requestCount = 3
    /\ medicineCurrentId = SeedCount + 2
    /\ SeedCount + 1 \notin DOMAIN medicines
    /\ DOMAIN transactionItems = {1}
    /\ transactionItems[1].medicineId = SeedCount + 1
    /\ response.code = 201
    /\ \A id \in 1..SeedCount :
          id \in DOMAIN medicines /\ medicines[id].stockQuantity = SeedQuantities[id]

(***************************************************************************)
(* C13: in every reachable state getLowStockMedicines returns exactly the  *)
(* stored medicines whose status is low_stock or critical, each as it is   *)
(* stored: no in_stock or out_of_stock medicine is in the result and no    *)
(* low_stock or critical one is missing.                                   *)
(***************************************************************************)
C13_LowStockExact ==
    LET result == getLowStockMedicines(medicines)
    IN  /\ DOMAIN result \subseteq DOMAIN medicines
        /\ \A id \in DOMAIN medicines :
              /\ medicines[id].stockStatus \in {"low_stock", "critical"}
                     => id \in DOMAIN result /\ result[id] = medicines[id]
              /\ medicines[id].stockStatus \in {"in_stock", "out_of_stock"}
                     => id \notin DOMAIN result

\* the store holds low_stock medicines next to one that sold out, and the
\* result leaves that one out
C13_Witness ==
    \E id \in CreatedMedicines :
        /\ medicines[id].stockStatus = "out_of_stock"
        /\ \E i \in DOMAIN transactionItems : transactionItems[i].medicineId = id
        /\ id \notin DOMAIN getLowStockMedicines(medicines)
        /\ 1..SeedCount \subseteq DOMAIN getLowStockMedicines(medicines)

(***************************************************************************)
(* C14: GET /api/medicines/expiring?days=d, for every whole number d >= 0  *)
(* written in decimal digits, answers exactly the stored medicines that    *)
(* have an expiry date no later than today + d, whatever their status,     *)
(* expired ones included.                                                  *)
(***************************************************************************)
ExpiringWithin(d) ==
    {id \in DOMAIN medicines : /\ "expiryDate" \in DOMAIN medicines[id]
                               /\ medicines[id].expiryDate <= today + d}

C14_ExpiringExact ==
    [][\A query \in ExpiringQueries :
          ("days" \in DOMAIN query /\ ~parseInt(query.days).nan /\ GetExpiring(query))
              => /\ DOMAIN answer'.data = ExpiringWithin(parseInt(query.days).value)
                 /\ \A id \in DOMAIN answer'.data : answer'.data[id] = medicines[id]
      ]_vars

(***************************************************************************)
(* C15: an alerting query, on the server or through the client's           *)
(* MedicineRepository, never answers with a medicine as it was before a    *)
(* mutation already stored: every medicine in the answer is in the store   *)
(* with the very record the answer shows.                                  *)
(***************************************************************************)
AlertingQueryStep ==
    \/ GetLowStock
    \/ \E query \in ExpiringQueries : GetExpiring(query)
    \/ RepositoryGetLowStock
    \/ \E days \in {30} : RepositoryGetExpiringSoon(days)

C15_NoStaleAnswer ==
    [][AlertingQueryStep =>
          \A id \in DOMAIN answer'.data :
              id \in DOMAIN medicines /\ answer'.data[id] = medicines[id]
      ]_vars

(***************************************************************************)
(* C16: every stored order has a status among pending, processing,         *)
(* shipped, delivered, cancelled and every stored transaction one among    *)
(* pending, completed, cancelled: no status-update endpoint stores another *)
(* value.                                                                  *)
(***************************************************************************)
C16_StatusesEnumerated ==
    /\ \A o \in DOMAIN orders : orders[o].status \in OrderStatuses
    /\ \A t \in DOMAIN transactions : transactions[t].status \in TransactionStatuses

(***************************************************************************)
(* C17: no endpoint stores a transaction item for a transaction id that is *)
(* not stored, or an order item for an order id that is not stored: every  *)
(* stored item belongs to a stored transaction or order (transactions and  *)
(* orders are never removed).                                              *)
(***************************************************************************)
C17_ItemsHaveParents ==
    /\ \A i \in DOMAIN transactionItems :
          transactionItems[i].transactionId \in DOMAIN transactions
    /\ \A i \in DOMAIN orderItems : orderItems[i].orderId \in DOMAIN orders

(***************************************************************************)
(* C18: an update or a delete that names an id not in the store is         *)
(* answered not found (404) and leaves every map and every id counter as   *)
(* it was, for medicines (update, delete), orders and transactions (status *)
(* update).                                                                *)
(***************************************************************************)
StoreUnchanged ==
    UNCHANGED <<medicines, medicineCurrentId, transactions, transactionCurrentId,
                transactionItems, transactionItemCurrentId, orders, orderCurrentId,
                orderItems, orderItemCurrentId>>

C18_UnknownIdLeavesStore ==
    [][/\ \A id \in RequestMedicineIds :
             (id \notin DOMAIN medicines
                  /\ \/ DeleteMedicine(id)
                     \/ \E body \in MedicinePatchBodies : PatchMedicine(id, body))
                 => response'.code = 404 /\ StoreUnchanged
       /\ \A o \in RequestOrderIds :
             (o \notin DOMAIN orders
                  /\ \/ \E s \in OrderStatuses : PatchOrderStatus(o, s)
                     \/ \E s \in OrderStatusInputs, n \in BOOLEAN :
                           PostOrderStatus(TRUE, o, s, n))
                 => response'.code = 404 /\ StoreUnchanged
       /\ \A t \in RequestTransactionIds :
             (t \notin DOMAIN transactions
                  /\ \E s \in TransactionStatuses : PatchTransactionStatus(t, s))
                 => response'.code = 404 /\ StoreUnchanged
      ]_vars

\* a medicine was created and deleted, and the third request, naming an id
\* that is not stored, was answered 404 with the store as the delete left it
C18_Witness ==
    /\ requestCount = 3
    /\ response.code = 404
    /\ medicineCurrentId = SeedCount + 2
    /\ DOMAIN medicines = 1..SeedCount
    /\ transactions = EmptyObject
    /\ orders = EmptyObject
    /\ transactionItems = EmptyObject
    /\ orderItems = EmptyObject

(***************************************************************************)
(* C19: no two stored prescriptions share a prescription number.           *)
(***************************************************************************)
C19_PrescriptionNumbersUnique ==
    \A i, j \in DOMAIN prescriptions :
        prescriptions[i].prescriptionNumber = prescriptions[j].prescriptionNumber
            => i = j

(***************************************************************************)
(* C20: every stored transaction's total amount is the sum of the line     *)
(* prices of the stored items that belong to it.                           *)
(***************************************************************************)
LinePriceSum(transactionId) ==
    SumOver({i \in DOMAIN transactionItems :
                transactionItems[i].transactionId = transactionId},
            [i \in DOMAIN transactionItems |-> transactionItems[i].price])

C20_TotalIsSumOfLinePrices ==
    \A t \in DOMAIN transactions : transactions[t].totalAmount = LinePriceSum(t)

(***************************************************************************)
(* C21: an authenticated POST /api/orders/:id/status for a stored order    *)
(* stores the new status and is answered 200, whether or not the notifier  *)
(* fails after the update.                                                 *)
(***************************************************************************)
C21_NotifierNeverFailsRequest ==
    [][\A o \in RequestOrderIds, s \in OrderStatusInputs, n \in BOOLEAN :
          (o \in DOMAIN orders /\ PostOrderStatus(TRUE, o, s, n))
              => /\ orders'[o].status = s
                 /\ response'.code = 200
      ]_vars

(***************************************************************************)
(* C22: every request that changes a stored order's status hands the       *)
(* mailer an "order status" notification with that order's id and its new  *)
(* status.                                                                 *)
(***************************************************************************)
C22_StatusChangeRaisesEvent ==
    [][\A o \in DOMAIN orders :
          (o \in DOMAIN orders' /\ orders'[o].status # orders[o].status)
              => [event |-> "order status", id |-> o, status |-> orders'[o].status]
                     \in dispatched'
      ]_vars

(***************************************************************************)
(* C23: every request that moves a stored medicine's status into critical  *)
(* or out_of_stock from another status hands the mailer a "low stock"      *)
(* notification with that medicine's id and its new status.                *)
(***************************************************************************)
C23_LowStockRaisesEvent ==
    [][\A id \in DOMAIN medicines :
          (/\ id \in DOMAIN medicines'
           /\ medicines'[id].stockStatus \in {"critical", "out_of_stock"}
           /\ medicines'[id].stockStatus # medicines[id].stockStatus)
              => [event |-> "low stock", id |-> id, status |-> medicines'[id].stockStatus]
                     \in dispatched'
      ]_vars

(***************************************************************************)
(* C24: for every stored medicine with a quantity q >= 0 the client's      *)
(* getStockStatus(q) names the status the server stored for it,            *)
(* isLowOnStock(q) holds exactly when that status is not in_stock, and     *)
(* the configured thresholds are those of the table (critical up to 5,     *)
(* low up to 20).                                                          *)
(***************************************************************************)
StatusLabel(stockStatus) ==
    CASE stockStatus = "out_of_stock" -> "Out of Stock"
      [] stockStatus = "critical" -> "Critical"
      [] stockStatus = "low_stock" -> "Low Stock"
      [] stockStatus = "in_stock" -> "In Stock"

C24_OneThresholdTable ==
    /\ stockThresholds = [critical |-> 5, low |-> 20]
    /\ \A id \in DOMAIN medicines :
          medicines[id].stockQuantity >= 0
              => /\ getStockStatus(medicines[id].stockQuantity)
                        = StatusLabel(medicines[id].stockStatus)
                 /\ isLowOnStock(medicines[id].stockQuantity)
                        <=> medicines[id].stockStatus # "in_stock"

(***************************************************************************)
(* C25: a step that stores a transaction item changes no medicine other    *)
(* than the one the item names, creates and removes no medicine, and       *)
(* leaves every order and every order item as it was.                      *)
(***************************************************************************)
C25_SaleTouchesOneMedicine ==
    [][ItemStoredInStep =>
          LET item == transactionItems'[transactionItemCurrentId]
          IN  /\ DOMAIN medicines' = DOMAIN medicines
              /\ \A id \in DOMAIN medicines :
                    id # item.medicineId => medicines'[id] = medicines[id]
              /\ orders' = orders
              /\ orderItems' = orderItems
      ]_vars

\* an order with an item is stored, and a sale has lowered the created
\* medicine from 25 to 21 while the seeded medicines stand as seeded
C25_Witness ==
    /\ SeedCount + 1 \in DOMAIN medicines
    /\ medicines[SeedCount + 1].stockQuantity = 21
    /\ DOMAIN transactionItems = {1}
    /\ transactionItems[1].medicineId = SeedCount + 1
    /\ transactionItems[1].quantity = 4
    /\ orderItems # EmptyObject
    /\ response.code = 201
    /\ requestCount = 5
    /\ \A id \in 1..SeedCount : medicines[id].stockQuantity = SeedQuantities[id]

(***************************************************************************)
(* C26: within each entity type, every stored record sits under its own id *)
(* and that id is below the type's counter; a step never lowers a counter; *)
(* a step that creates a record raises the counter by one, stores the      *)
(* record under the counter's old value, which no stored record had, and   *)
(* leaves every other record of the type in place, so that a get of the    *)
(* new id returns the created record and an id is never issued twice, even *)
(* after a delete.                                                         *)
(***************************************************************************)
IdsBelowCounter(map, counter) ==
    \A id \in DOMAIN map : map[id].id = id /\ id < counter

FreshIdStep(map, mapAfter, counter, counterAfter) ==
    /\ counterAfter \in {counter, counter + 1}
    /\ \A id \in DOMAIN mapAfter \ DOMAIN map : id = counter /\ counterAfter = counter + 1
    /\ counterAfter = counter + 1
          => /\ counter \notin DOMAIN map
             /\ counter \in DOMAIN mapAfter
             /\ mapAfter[counter].id = counter
             /\ \A id \in DOMAIN map : id \in DOMAIN mapAfter /\ mapAfter[id] = map[id]

C26_FreshIdentifiers ==
    /\ [](/\ IdsBelowCounter(medicines, medicineCurrentId)
          /\ IdsBelowCounter(transactions, transactionCurrentId)
          /\ IdsBelowCounter(transactionItems, transactionItemCurrentId)
          /\ IdsBelowCounter(orders, orderCurrentId)
          /\ IdsBelowCounter(orderItems, orderItemCurrentId))
    /\ [][/\ FreshIdStep(medicines, medicines', medicineCurrentId, medicineCurrentId')
          /\ FreshIdStep(transactions, transactions',
                         transactionCurrentId, transactionCurrentId')
          /\ FreshIdStep(transactionItems, transactionItems',
                         transactionItemCurrentId, transactionItemCurrentId')
          /\ FreshIdStep(orders, orders', orderCurrentId, orderCurrentId')
          /\ FreshIdStep(orderItems, orderItems', orderItemCurrentId, orderItemCurrentId')
      ]_vars

\* a seeded medicine was deleted and a medicine was created afterwards: it
\* sits under the id after the last seed, not under the freed id; an order
\* and an order item are stored under id 1
C26_Witness ==
    /\ DOMAIN medicines = (1..(SeedCount + 1)) \ {2}
    /\ medicines[SeedCount + 1].id = SeedCount + 1
    /\ medicineCurrentId = SeedCount + 2
    /\ DOMAIN orders = {1}
    /\ DOMAIN orderItems = {1}
    /\ orderItems[1].id = 1
    /\ orderCurrentId = 2
    /\ orderItemCurrentId = 2

(***************************************************************************)
(* C27: a status update of a stored transaction to pending, completed or   *)
(* cancelled writes that status on that transaction and changes nothing    *)
(* else: no other field, no other transaction, no transaction item, no     *)
(* medicine (a cancellation returns no stock), no order, no order item.    *)
(***************************************************************************)
C27_TransactionStatusOnly ==
    [][\A t \in RequestTransactionIds, s \in TransactionStatuses :
          (t \in DOMAIN transactions /\ PatchTransactionStatus(t, s))
              => /\ response'.code = 200
                 /\ transactions' = [transactions EXCEPT ![t].status = s]
                 /\ UNCHANGED <<medicines, medicineCurrentId, transactionCurrentId,
                                transactionItems, transactionItemCurrentId, orders,
                                orderCurrentId, orderItems, orderItemCurrentId>>
      ]_vars

\* a medicine created with 25 was sold 4 from in transaction 1, and the
\* fourth request cancelled the transaction: the medicine still stands at 21
C27_Witness ==
    /\ requestCount = 4
    /\ response.code = 200
    /\ 1 \in DOMAIN transactions
    /\ transactions[1].status = "cancelled"
    /\ DOMAIN transactionItems = {1}
    /\ transactionItems[1].transactionId = 1
    /\ transactionItems[1].medicineId = SeedCount + 1
    /\ transactionItems[1].quantity = 4
    /\ SeedCount + 1 \in DOMAIN medicines
    /\ medicines[SeedCount + 1].stockQuantity = 21

(***************************************************************************)
(* C28: a request that adds an item to an order leaves every medicine as   *)
(* it was, whatever the order's status: an item added to a delivered order *)
(* is stored and not credited to the stock by that request.                *)
(***************************************************************************)
C28_OrderItemLeavesMedicines ==
    [][\A o \in RequestOrderIds, m \in RequestMedicineIds, q \in OrderItemQuantities :
          PostOrderItems(o, m, q)
              => /\ medicines' = medicines
                 /\ medicineCurrentId' = medicineCurrentId
                 /\ orders' = orders
                 /\ o \in DOMAIN orders
                       => /\ response'.code = 201
                          /\ orderItems'[orderItemCurrentId].orderId = o
                          /\ orderItems'[orderItemCurrentId].medicineId = m
                          /\ orderItems'[orderItemCurrentId].quantity = q
      ]_vars

\* a medicine was created with 25, an order was created and delivered, and
\* the fourth request added an item of 50 for the medicine to the delivered
\* order: the medicine stands at 25
C28_Witness ==
    /\ requestCount = 4
    /\ response.code = 201
    /\ DOMAIN orders = {1}
    /\ orders[1].status = "delivered"
    /\ DOMAIN orderItems = {1}
    /\ orderItems[1].orderId = 1
    /\ orderItems[1].medicineId = SeedCount + 1
    /\ orderItems[1].quantity = 50
    /\ SeedCount + 1 \in DOMAIN medicines
    /\ medicines[SeedCount + 1].stockQuantity = 25

(***************************************************************************)
(* C29: the center never stores more than maxNotifications notifications,  *)
(* and stores them newest first; no observer is attached twice; a notify   *)
(* puts the new notification first and keeps the stored ones in order,     *)
(* dropping the oldest, and only the oldest, when the store was full; and  *)
(* it calls update with the new notification once on every attached        *)
(* observer and on no other.                                               *)
(***************************************************************************)
C29_BoundedNewestFirstOnceEach ==
    /\ [](/\ Len(notifications) <= maxNotifications
          /\ \A i, j \in DOMAIN notifications :
                i < j => notifications[i].id > notifications[j].id
          /\ \A i, j \in DOMAIN observers : observers[i] = observers[j] => i = j)
    /\ [][notificationCount' # notificationCount
            => LET new == [id |-> notificationCount']
               IN  /\ notifications' =
                          <<new>> \o (IF Len(notifications) = maxNotifications
                                      THEN SubSeq(notifications, 1, maxNotifications - 1)
                                      ELSE notifications)
                   /\ \A o \in ObserverObjects :
                          Cardinality({i \in DOMAIN updates' : updates'[i].observer = o})
                              = IF o \in Range(observers) THEN 1 ELSE 0
                   /\ \A i \in DOMAIN updates' : updates'[i].notification = new
      ]_vars

\* the hundred-and-first notify onto a full store, with two observers
\* attached: the first notification is gone, the new one stands first
C29_Witness ==
    /\ notificationCount = maxNotifications + 1
    /\ Len(notifications) = maxNotifications
    /\ notifications[1].id = maxNotifications + 1
    /\ notifications[maxNotifications].id = 2
    /\ Len(observers) = 2
    /\ Len(updates) = 2
    /\ updates[1].notification.id = maxNotifications + 1

(***************************************************************************)
(* C30: a user is verified only when two-factor authentication is enabled  *)
(* and a secret is stored; an authenticated enable request leaves the user *)
(* enabled and not verified; an authenticated disable request leaves the   *)
(* user not enabled, not verified and without a secret.                    *)
(***************************************************************************)
C30_TwoFactorStates ==
    /\ [](\A u \in DOMAIN users :
             Truthy(Field(users[u], "twoFactorVerified"))
                 => /\ Truthy(Field(users[u], "twoFactorEnabled"))
                    /\ Truthy(Field(users[u], "twoFactorSecret")))
    /\ [][\A u \in DOMAIN users :
             /\ PostTwoFactorEnable(TRUE, u)
                   => /\ Field(users'[u], "twoFactorEnabled") = "true"
                      /\ ~Truthy(Field(users'[u], "twoFactorVerified"))
             /\ PostTwoFactorDisable(TRUE, u)
                   => /\ ~Truthy(Field(users'[u], "twoFactorEnabled"))
                      /\ ~Truthy(Field(users'[u], "twoFactorVerified"))
                      /\ ~Truthy(Field(users'[u], "twoFactorSecret"))
      ]_vars

=============================================================================
